---- MODULE Spec2Model ----
(***************************************************************************)
(* Model of euraxess_mcp.py: the RSS feed gateway.                         *)
(*                                                                         *)
(*   - Python values produced by xmltodict (None, str, dict, list) are     *)
(*     tagged records, so that the code's isinstance / truthiness / .get   *)
(*     steps can be followed literally.                                    *)
(*   - A feed text is represented by the XML document it spells (or by a   *)
(*     marker for text that is not well-formed XML); xmltodict.parse is    *)
(*     the operator xmltodict_parse on element trees.                      *)
(*   - parse_rss_text_to_items is the lru_cache(maxsize=32) wrapper around *)
(*     the function body; the cache is the variable cache, least recently  *)
(*     used entry first.                                                   *)
(*   - list_jobs and get_job are atomic actions: the handlers touch no     *)
(*     shared state before their single await, so a request is one step    *)
(*     whose input is the upstream's answer.                               *)
(***************************************************************************)
EXTENDS Integers, Sequences, FiniteSets, TLC

VARIABLES cache,   \* lru_cache of parse_rss_text_to_items: <<[key, val]>>, LRU first
          today,   \* the wall-clock date (dateutil fills missing fields from it)
          req,     \* the last operation and its inputs
          resp,    \* what the last operation returned or raised
          calls    \* number of direct parser calls made (capped in SpecCache)

vars == <<cache, today, req, resp, calls>>

(***************************************************************************)
(* Bounds of the model.                                                    *)
(***************************************************************************)
MaxItems   == 2   \* item elements per channel in the enumerated feeds
MaxLimit   == 3   \* small limits tried besides the edges 0, 500, 501
MaxTicks   == 2   \* days the clock may advance
MaxCalls   == 2   \* direct parser calls in SpecCache
ExtraTexts == 2   \* distinct filler feed texts beyond the cache capacity

(***************************************************************************)
(* Program constants.                                                      *)
(***************************************************************************)
maxsize    == 32   \* @lru_cache(maxsize=32)
LimitMin   == 1    \* Query(..., ge=1, ...)
LimitMax   == 500  \* Query(..., le=500)
BadGateway == 502  \* HTTPException(status_code=502, ...)

(***************************************************************************)
(* Python values.                                                          *)
(***************************************************************************)
PyNone     == [k |-> "none"]
PyStr(s)   == [k |-> "str", s |-> s]
PyDict(d)  == [k |-> "dict", d |-> d]
PyList(l)  == [k |-> "list", l |-> l]
EmptyDict  == PyDict(<<>>)

\* bool(v)
Truthy(v) ==
  CASE v.k = "none" -> FALSE
    [] v.k = "str"  -> v.s # ""
    [] v.k = "dict" -> DOMAIN v.d # {}
    [] v.k = "list" -> v.l # <<>>

\* v.get(key, default) for a dict v
DictGet(v, key, default) == IF key \in DOMAIN v.d THEN v.d[key] ELSE default

\* v or w
PyOr(v, w) == IF Truthy(v) THEN v ELSE w

(***************************************************************************)
(* XML documents and xmltodict.parse.                                      *)
(***************************************************************************)
Elem(tag, attrs, text, kids) ==
  [tag |-> tag, attrs |-> attrs, text |-> text, kids |-> kids]
NoAttrs == <<>>
Leaf(tag, text) == Elem(tag, NoAttrs, text, <<>>)
Node(tag, kids) == Elem(tag, NoAttrs, "", kids)

NotXml      == [wf |-> FALSE]
XmlDoc(root) == [wf |-> TRUE, root |-> root]

RECURSIVE ElemValue(_)
RECURSIVE KidValues(_, _)

\* the values of the children named t, in document order
KidValues(kids, t) ==
  IF kids = <<>> THEN <<>>
  ELSE (IF Head(kids).tag = t THEN <<ElemValue(Head(kids))>> ELSE <<>>)
       \o KidValues(Tail(kids), t)

\* what xmltodict stores under an element's tag: None for an empty element,
\* the text for a text-only element, otherwise a dict of "@attr", children
\* (a repeated child becomes a list) and "#text"
ElemValue(e) ==
  LET tags  == {e.kids[i].tag : i \in DOMAIN e.kids}
      akeys == {"@" \o a : a \in DOMAIN e.attrs}
      tkeys == IF e.text # "" THEN {"#text"} ELSE {}
      kid(t) == LET vs == KidValues(e.kids, t)
                IN IF Len(vs) = 1 THEN vs[1] ELSE PyList(vs)
      attr(key) == PyStr(e.attrs[CHOOSE a \in DOMAIN e.attrs : "@" \o a = key])
  IN IF e.kids = <<>> /\ DOMAIN e.attrs = {}
     THEN (IF e.text = "" THEN PyNone ELSE PyStr(e.text))
     ELSE PyDict([key \in tags \cup akeys \cup tkeys |->
                    IF key \in tags THEN kid(key)
                    ELSE IF key \in akeys THEN attr(key)
                    ELSE PyStr(e.text)])

\* xmltodict.parse of a well-formed document: {root tag: value}
xmltodict_parse(doc) == PyDict([t \in {doc.root.tag} |-> ElemValue(doc.root)])

(***************************************************************************)
(* Dates: the clock, dateutil.parser.parse, date().isoformat().            *)
(***************************************************************************)
Date(y, m, d) == [year |-> y, month |-> m, day |-> d]

IsLeap(y) == (y % 4 = 0 /\ y % 100 # 0) \/ y % 400 = 0

DaysInMonth(y, m) ==
  IF m = 2 THEN (IF IsLeap(y) THEN 29 ELSE 28)
  ELSE IF m \in {4, 6, 9, 11} THEN 30 ELSE 31

NextDay(d) ==
  IF d.day < DaysInMonth(d.year, d.month) THEN Date(d.year, d.month, d.day + 1)
  ELSE IF d.month < 12 THEN Date(d.year, d.month + 1, 1)
  ELSE Date(d.year + 1, 1, 1)

RECURSIVE AddDays(_, _)
AddDays(d, n) == IF n = 0 THEN d ELSE AddDays(NextDay(d), n - 1)

\* the day the process starts on, and the last day the model's clock reaches
StartDay == Date(2026, 12, 30)
LastDay  == AddDays(StartDay, MaxTicks)

\* The fields dateutil's parser finds in a timestamp string, for the pubDate
\* strings of the modelled feeds; any other string is one it cannot parse
\* (ParserError).
DateFields(s) ==
  CASE s = "Mon, 02 Mar 2026 10:30:00 GMT" ->
         [ok |-> TRUE,
          f |-> [year |-> 2026, month |-> 3, day |-> 2, hour |-> 10, minute |-> 30]]
    [] s = "5 March" ->
         [ok |-> TRUE, f |-> [month |-> 3, day |-> 5]]
    [] s = "10:30" ->
         [ok |-> TRUE, f |-> [hour |-> 10, minute |-> 30]]
    [] OTHER -> [ok |-> FALSE, f |-> <<>>]

\* dateutil.parser.parse(s).date(): fields the string does not give are taken
\* from the default, which is datetime.now() at midnight; .date() drops the
\* time of day and any UTC offset without converting
dateparser_parse_date(s, now) ==
  LET f == DateFields(s).f
      pick(name, dflt) == IF name \in DOMAIN f THEN f[name] ELSE dflt
  IN Date(pick("year", now.year), pick("month", now.month), pick("day", now.day))

Digit == <<"0", "1", "2", "3", "4", "5", "6", "7", "8", "9">>
Pad2(n) == Digit[((n \div 10) % 10) + 1] \o Digit[(n % 10) + 1]
Pad4(n) == Pad2(n \div 100) \o Pad2(n % 100)

\* datetime.date.isoformat(): YYYY-MM-DD
isoformat(d) == Pad4(d.year) \o "-" \o Pad2(d.month) \o "-" \o Pad2(d.day)

(***************************************************************************)
(* Results of a call: a value, or the exception it raised.                 *)
(***************************************************************************)
Ok(v)    == [exc |-> "none", val |-> v]
Raise(e) == [exc |-> e, val |-> <<>>]
Raised(r) == r.exc # "none"

(***************************************************************************)
(* JobItem and _parse_item.                                                *)
(***************************************************************************)
\* pydantic's check of an Optional[str] field
IsOptionalStr(v) == v.k \in {"none", "str"}

\* JobItem(...): pydantic validates the five Optional[str] fields and the
\* Optional[dict] field raw; a dict or list where a string is declared raises
\* ValidationError
JobItem(source_ref, url, title, description_raw, posted_date, raw) ==
  IF /\ IsOptionalStr(source_ref) /\ IsOptionalStr(url) /\ IsOptionalStr(title)
     /\ IsOptionalStr(description_raw) /\ IsOptionalStr(posted_date)
     /\ raw.k \in {"none", "dict"}
  THEN Ok([source |-> PyStr("euraxess"), source_ref |-> source_ref, url |-> url,
           title |-> title, description_raw |-> description_raw,
           posted_date |-> posted_date, raw |-> raw])
  ELSE Raise("ValidationError")

\* lines 30-34: posted_date, with every exception of the date parser caught
posted_date_of(pubDate, now) ==
  IF ~Truthy(pubDate) THEN PyNone
  ELSE IF pubDate.k # "str" THEN PyNone              \* TypeError, caught
  ELSE IF ~DateFields(pubDate.s).ok THEN PyNone       \* ParserError, caught
  ELSE PyStr(isoformat(dateparser_parse_date(pubDate.s, now)))

\* line 35
source_ref_of(item) == PyOr(DictGet(item, "guid", PyNone), DictGet(item, "link", PyNone))

\* _parse_item(item): item.get on anything but a dict raises AttributeError
parse_item(item, now) ==
  IF item.k # "dict" THEN Raise("AttributeError")
  ELSE LET title == DictGet(item, "title", PyNone)
           link  == DictGet(item, "link", PyNone)
           desc  == PyOr(DictGet(item, "description", PyNone), PyStr(""))
           pubDate == DictGet(item, "pubDate", PyNone)
       IN JobItem(source_ref_of(item), link, title, desc,
                  posted_date_of(pubDate, now), item)

(***************************************************************************)
(* parse_rss_text_to_items: the function body and the lru_cache wrapper.   *)
(***************************************************************************)
\* line 50-51
wrap_single(items) == IF items.k = "dict" THEN PyList(<<items>>) ELSE items

\* line 52: the list comprehension; the first item that raises ends it
parse_all(its, now) ==
  LET recs == [i \in DOMAIN its |-> parse_item(its[i], now)]
      bad  == {i \in DOMAIN its : Raised(recs[i])}
  IN IF bad # {}
     THEN Raise(recs[CHOOSE i \in bad : \A j \in bad : i <= j].exc)
     ELSE Ok([i \in DOMAIN its |-> recs[i].val])

\* lines 48-53, the undecorated function
parse_body(rss_text, now) ==
  IF ~rss_text.wf THEN Raise("ExpatError")
  ELSE
    LET data == xmltodict_parse(rss_text)
        rss  == DictGet(data, "rss", EmptyDict)
    IN IF rss.k # "dict" THEN Raise("AttributeError")
       ELSE
         LET channel == DictGet(rss, "channel", EmptyDict)
         IN IF channel.k # "dict" THEN Raise("AttributeError")
            ELSE
              LET items == wrap_single(DictGet(channel, "item", PyList(<<>>)))
              IN CASE items.k = "none" -> Raise("TypeError")   \* for .. in None
                   \* a str iterates as its characters; xmltodict never
                   \* stores an empty str, so the first character reaches
                   \* _parse_item and item.get raises
                   [] items.k = "str"  -> Raise("AttributeError")
                   [] items.k = "list" -> parse_all(items.l, now)

\* position of key in the cache, 0 when absent
CacheIndex(c, key) ==
  IF \E i \in DOMAIN c : c[i].key = key
  THEN CHOOSE i \in DOMAIN c : c[i].key = key
  ELSE 0

Remove(c, i) == SubSeq(c, 1, i - 1) \o SubSeq(c, i + 1, Len(c))

\* lru_cache: the value a call returns (or the exception it raises) ...
cached_result(c, key, now) ==
  LET i == CacheIndex(c, key)
  IN IF i # 0 THEN Ok(c[i].val) ELSE parse_body(key, now)

\* a cache that does not refresh an entry on a hit (first in, first out)
cache_after_fifo(c, key, now) ==
  LET r == parse_body(key, now)
  IN IF CacheIndex(c, key) # 0 \/ Raised(r) THEN c
     ELSE Append(IF Len(c) >= maxsize THEN Tail(c) ELSE c,
                 [key |-> key, val |-> r.val])

\* ... and the cache it leaves: a hit moves the entry to the most recently
\* used end; a miss that returns is inserted there, dropping the least
\* recently used entry when the cache is full; a miss that raises stores nothing
cache_after(c, key, now) ==
  LET i == CacheIndex(c, key)
      r == parse_body(key, now)
  IN IF i # 0 THEN Append(Remove(c, i), c[i])
     ELSE IF Raised(r) THEN c
     ELSE Append(IF Len(c) >= maxsize THEN Tail(c) ELSE c,
                 [key |-> key, val |-> r.val])

(***************************************************************************)
(* The feeds the model parses.                                             *)
(***************************************************************************)
ItemFull ==
  Node("item", <<Leaf("title", "Postdoc"), Leaf("link", "http://e/1"),
                 Leaf("description", "D1"), Leaf("guid", "g1"),
                 Leaf("pubDate", "Mon, 02 Mar 2026 10:30:00 GMT")>>)
\* <guid isPermaLink="false">g2</guid>
ItemGuidAttr ==
  Node("item", <<Leaf("title", "PhD"), Leaf("link", "http://e/2"),
                 Elem("guid", [isPermaLink |-> "false"], "g2", <<>>)>>)
ItemLinkOnly ==
  Node("item", <<Leaf("link", "http://e/3"), Leaf("pubDate", "not a date")>>)
ItemBare == Node("item", <<Leaf("title", "Bare")>>)
\* <guid/> and <pubDate/> present but empty
ItemEmptyFields ==
  Node("item", <<Leaf("link", "http://e/5"), Leaf("guid", ""), Leaf("pubDate", "")>>)
ItemTimeOnly == Node("item", <<Leaf("guid", "g6"), Leaf("pubDate", "10:30")>>)
ItemMonthDay == Node("item", <<Leaf("guid", "g7"), Leaf("pubDate", "5 March")>>)
ItemEmpty == Leaf("item", "")        \* <item/>
ItemText  == Leaf("item", "hello")   \* <item>hello</item>

ItemCatalog == {ItemFull, ItemGuidAttr, ItemLinkOnly, ItemBare, ItemEmptyFields,
                ItemTimeOnly, ItemMonthDay, ItemEmpty, ItemText}

RssOf(kids) == XmlDoc(Elem("rss", [version |-> "2.0"], "", kids))
\* <rss version="2.0"><channel><title>..</title> items </channel></rss>
TitledFeed(title, items) ==
  RssOf(<<Node("channel", <<Leaf("title", title)>> \o items)>>)
Feed(items) == TitledFeed("EURAXESS", items)
\* a channel whose only children are the items
PlainFeed(items) == RssOf(<<Elem("channel", NoAttrs, "", items)>>)

DocOtherRoot     == XmlDoc(Leaf("feed", ""))                  \* <feed/>
DocEmptyRss      == XmlDoc(Leaf("rss", ""))                   \* <rss/>
DocNoChannel     == RssOf(<<>>)                               \* <rss version="2.0"/>
DocEmptyChannel  == RssOf(<<Leaf("channel", "")>>)            \* <channel/>
DocTextChannel   == RssOf(<<Leaf("channel", "soon")>>)        \* <channel>soon</channel>

RECURSIVE SeqsUpTo(_, _)
\* the sequences over S of length at most n
SeqsUpTo(S, n) ==
  IF n = 0 THEN {<<>>}
  ELSE LET shorter == SeqsUpTo(S, n - 1)
       IN shorter \cup {Append(q, x) : q \in shorter, x \in S}

AllDocs ==
  {NotXml, DocOtherRoot, DocEmptyRss, DocNoChannel, DocEmptyChannel, DocTextChannel}
  \cup {Feed(items) : items \in SeqsUpTo(ItemCatalog, MaxItems)}
  \cup {PlainFeed(<<it>>) : it \in ItemCatalog}

\* distinct feed texts that parse to no jobs, to fill the cache with
Filler(i) == TitledFeed("feed-" \o Pad2(i), <<>>)
CacheTexts ==
  {Filler(i) : i \in 1..(maxsize + ExtraTexts)}
  \cup {Feed(<<ItemFull>>), Feed(<<ItemTimeOnly>>), Feed(<<ItemGuidAttr>>), NotXml}

\* the feed bodies the upstream serves in the service specification
Feed3 == Feed(<<ItemFull, ItemLinkOnly, ItemTimeOnly>>)
ServiceTexts ==
  {Feed3, Feed(<<ItemBare>>), Feed(<<>>), Feed(<<ItemFull, ItemGuidAttr>>),
   DocEmptyChannel, NotXml}

(***************************************************************************)
(* The XML side of a feed, read off the document itself.                   *)
(***************************************************************************)
KidsNamed(e, t) == SelectSeq(e.kids, LAMBDA kid : kid.tag = t)

\* a well-formed RSS document with a channel
IsRssFeed(doc) ==
  /\ doc.wf
  /\ doc.root.tag = "rss"
  /\ Len(KidsNamed(doc.root, "channel")) = 1

ChannelOf(doc) == KidsNamed(doc.root, "channel")[1]
\* the item elements of the channel, in document order
ItemElems(doc) == KidsNamed(ChannelOf(doc), "item")

(***************************************************************************)
(* The HTTP side: upstream answers and httpx.                              *)
(***************************************************************************)
Statuses == {200, 301, 404, 503}

\* raw header lists as the upstream sends them
HeadersMixed == <<<<"Content-Type", "text/html">>, <<"Set-Cookie", "a=1">>,
                  <<"set-cookie", "b=2">>>>
HeadersLower == <<<<"content-type", "text/html">>>>
HeaderLists  == {HeadersMixed, HeadersLower}

Pages == {"<html>job</html>", ""}
Urls  == {"http://e/1"}

Answer(status, headers, text) ==
  [kind |-> "response", status |-> status, headers |-> headers, text |-> text]
ConnectError == [kind |-> "ConnectError"]
ReadTimeout  == [kind |-> "ReadTimeout"]

\* what the feed endpoint may answer: any feed body with a 200, an error page
\* or a feed body with the other statuses
FeedAnswers ==
  {ConnectError, ReadTimeout}
  \cup {Answer(200, HeadersLower, t) : t \in ServiceTexts}
  \cup {Answer(s, HeadersLower, t) : s \in Statuses \ {200}, t \in {NotXml, Feed3}}
PageAnswers ==
  {ConnectError, ReadTimeout}
  \cup {Answer(s, h, t) : s \in Statuses, h \in HeaderLists, t \in Pages}

\* a status check that only rejects 4xx and 5xx
is_success_below_400(status) == status >= 200 /\ status <= 399

\* Response.is_success
is_success(status) == status >= 200 /\ status <= 299

\* a fetch without the raise_for_status() call
fetch_raises_transport_only(up) == up.kind # "response"

\* client.get(...) followed by r.raise_for_status(), as the except clause sees
\* it: a transport error and a non-2xx status both raise an httpx.HTTPError
fetch_raises(up) == up.kind # "response" \/ ~is_success(up.status)

\* str.lower() on the header names of the modelled answers
Lower(name) ==
  CASE name = "Content-Type" -> "content-type"
    [] name = "Set-Cookie"   -> "set-cookie"
    [] OTHER -> name

RECURSIVE JoinValues(_, _)
\* httpx.Headers.__getitem__: the values of every header of that name, ", "-joined
JoinValues(h, key) ==
  IF h = <<>> THEN ""
  ELSE LET rest == JoinValues(Tail(h), key)
       IN IF Lower(Head(h)[1]) # key THEN rest
          ELSE IF rest = "" THEN Head(h)[2]
          ELSE Head(h)[2] \o ", " \o rest

\* dict(r.headers): httpx.Headers iterates lower-cased names
headers_dict(h) ==
  PyDict([key \in {Lower(h[i][1]) : i \in DOMAIN h} |-> PyStr(JoinValues(h, key))])

(***************************************************************************)
(* Operations.                                                             *)
(***************************************************************************)
NoReq  == [name |-> "none"]
NoResp == [status |-> 0]

\* items[:limit], for limit >= 0
Take(q, n) == SubSeq(q, 1, IF n < Len(q) THEN n ELSE Len(q))

\* JobItem.dict(): the field mapping of a record
item_dict(job) == PyDict(job)

\* line 66: {"count": len(items[:limit]), "jobs": [i.dict() for i in items[:limit]]}
jobs_result(items, limit) ==
  [count |-> Len(Take(items, limit)),
   jobs  |-> [i \in DOMAIN Take(items, limit) |-> item_dict(Take(items, limit)[i])]]

\* A direct call parse_rss_text_to_items(t), through the lru_cache wrapper.
ParseCall(t) ==
  /\ calls < MaxCalls
  /\ resp'  = cached_result(cache, t, today)
  /\ cache' = cache_after(cache, t, today)
  /\ req'   = [name |-> "parse", text |-> t, before |-> cache]
  /\ calls' = calls + 1
  /\ UNCHANGED today

\* GET /list_jobs?limit=..; up is what the feed endpoint answers.
ListJobs(limit, up) ==
  /\ UNCHANGED <<today, calls>>
  /\ IF limit < LimitMin \/ limit > LimitMax
     THEN \* rejected by the Query(ge=1, le=500) validation, before the handler runs
          /\ req'  = [name |-> "list_jobs", limit |-> limit, up |-> up,
                      fetches |-> 0, parsed |-> FALSE]
          /\ resp' = [status |-> 422]
          /\ UNCHANGED cache
     ELSE IF fetch_raises(up)
     THEN \* lines 62-64
          /\ req'  = [name |-> "list_jobs", limit |-> limit, up |-> up,
                      fetches |-> 1, parsed |-> FALSE]
          /\ resp' = [status |-> BadGateway, detail |-> "Failed to fetch euraxess feed"]
          /\ UNCHANGED cache
     ELSE LET r == cached_result(cache, up.text, today)
          IN /\ req'   = [name |-> "list_jobs", limit |-> limit, up |-> up,
                          fetches |-> 1, parsed |-> TRUE]
             /\ cache' = cache_after(cache, up.text, today)
             /\ resp'  = IF Raised(r)
                         THEN \* nothing catches it: the framework answers 500
                              [status |-> 500, exc |-> r.exc]
                         ELSE [status |-> 200, body |-> jobs_result(r.val, limit)]

\* GET /get_job?url=..; up is what the page's server answers.
GetJob(url, up) ==
  /\ UNCHANGED <<cache, today, calls>>
  /\ req' = [name |-> "get_job", url |-> url, up |-> up, fetches |-> 1]
  /\ resp' = IF fetch_raises(up)
             THEN [status |-> BadGateway, detail |-> "Failed to fetch job URL"]
             ELSE [status |-> 200,
                   body |-> [url |-> url, status_code |-> up.status,
                             headers |-> headers_dict(up.headers),
                             raw_html |-> up.text]]

\* GET /health
Health ==
  /\ UNCHANGED <<cache, today, calls>>
  /\ req' = [name |-> "health"]
  /\ resp' = [status |-> 200, body |-> [ok |-> TRUE]]

\* The calendar day changes while the process runs.
Tick ==
  /\ today # LastDay
  /\ today' = NextDay(today)
  /\ req' = [name |-> "tick"]
  /\ resp' = NoResp
  /\ UNCHANGED <<cache, calls>>

(***************************************************************************)
(* Specifications.                                                         *)
(***************************************************************************)
\* The service: requests against an upstream that answers anything.
Init ==
  /\ cache = <<>>
  /\ today = StartDay
  /\ req = NoReq
  /\ resp = NoResp
  /\ calls = 0

Next ==
  \/ \E limit \in (0..MaxLimit) \cup {LimitMax, LimitMax + 1}, up \in FeedAnswers :
       ListJobs(limit, up)
  \/ \E url \in Urls, up \in PageAnswers : GetJob(url, up)
  \/ Health
  \/ Tick

Spec == Init /\ [][Next]_vars

\* The parser as a function: one call on any feed of the catalogue, on any day.
InitParse ==
  /\ cache = <<>>
  /\ today \in {AddDays(StartDay, n) : n \in 0..MaxTicks}
  /\ req = NoReq
  /\ resp = NoResp
  /\ calls = 0

NextParse == \E t \in AllDocs : calls = 0 /\ ParseCall(t)

SpecParse == InitParse /\ [][NextParse]_vars

\* The cache: parser calls on a cache that is empty or was filled by parsing
\* the filler feeds 1..maxsize in that order.
Prefilled(n) == [i \in 1..n |-> [key |-> Filler(i), val |-> parse_body(Filler(i), StartDay).val]]

InitCache ==
  /\ cache \in {<<>>, Prefilled(maxsize)}
  /\ today = StartDay
  /\ req = NoReq
  /\ resp = NoResp
  /\ calls = 0

NextCache == \E t \in CacheTexts : ParseCall(t)

SpecCache == InitCache /\ [][NextCache]_vars

(***************************************************************************)
(* What the claims expect of an item, read off the XML.                    *)
(***************************************************************************)
HasKid(e, t)  == KidsNamed(e, t) # <<>>
KidText(e, t) == IF HasKid(e, t) THEN KidsNamed(e, t)[1].text ELSE ""
TextOrAbsent(e, t) == IF KidText(e, t) # "" THEN PyStr(KidText(e, t)) ELSE PyNone

\* guid if present and non-empty, else link, else absent
ExpectedRef(e) ==
  IF KidText(e, "guid") # "" THEN PyStr(KidText(e, "guid")) ELSE TextOrAbsent(e, "link")

\* every item of the feed is an element with child elements
OrdinaryItems(doc) == \A i \in DOMAIN ItemElems(doc) : ItemElems(doc)[i].kids # <<>>

ParsedFeed == req.name = "parse" /\ IsRssFeed(req.text)

(***************************************************************************)
(* C1: for a well-formed RSS document whose channel holds N item elements  *)
(* (N >= 0, a channel without any child included), the parser returns      *)
(* exactly N records, the i-th being the normalization of the i-th item;   *)
(* for N = 0 it returns the empty sequence and does not raise.             *)
(* Fails: <channel/> is None to xmltodict and None.get raises.             *)
(***************************************************************************)
C1_OneRecordPerItem ==
  (ParsedFeed /\ OrdinaryItems(req.text)) =>
    LET its == ItemElems(req.text)
    IN /\ ~Raised(resp)
       /\ Len(resp.val) = Len(its)
       /\ \A i \in DOMAIN its :
            /\ resp.val[i].title = TextOrAbsent(its[i], "title")
            /\ resp.val[i].url = TextOrAbsent(its[i], "link")
            /\ resp.val[i].raw = ElemValue(its[i])

(***************************************************************************)
(* C2: source_ref is the item's guid when present and non-empty, else its  *)
(* link, else absent, whatever shape the guid takes (plain text or a guid  *)
(* element with attributes); url equals link.                              *)
(* Fails: a guid with attributes is a dict, which JobItem rejects.         *)
(***************************************************************************)
C2_SourceRefPolicy ==
  (ParsedFeed /\ OrdinaryItems(req.text)) =>
    LET its == ItemElems(req.text)
    IN \A i \in DOMAIN its :
         /\ ~Raised(resp)
         /\ resp.val[i].source_ref = ExpectedRef(its[i])
         /\ resp.val[i].url = TextOrAbsent(its[i], "link")

(***************************************************************************)
(* C3: parsing raises only for text that is not XML: any well-formed       *)
(* document (missing rss or channel, empty channel, empty item, text-only  *)
(* item, missing fields) yields a record sequence.                         *)
(* Fails on <rss/>, <channel/>, <item/>, <item>text</item>.                *)
(***************************************************************************)
C3_WellFormedNeverRaises ==
  (req.name = "parse" /\ req.text.wf) => ~Raised(resp)

(***************************************************************************)
(* C8: an item whose pubDate is missing, empty or unparseable gets         *)
(* posted_date absent and neither it nor the feed raises; a pubDate that   *)
(* parses gives posted_date as an ISO-8601 calendar date.                  *)
(* The date step holds; the feed still raises when the same or another     *)
(* item has a guid with attributes (C2) or is empty (C3).                  *)
(***************************************************************************)
C8_BadDateNeverRaises ==
  (ParsedFeed /\ OrdinaryItems(req.text)) =>
    LET its == ItemElems(req.text)
    IN \A i \in DOMAIN its :
         LET pub == KidText(its[i], "pubDate")
         IN /\ ~Raised(resp)
            /\ IF DateFields(pub).ok
               THEN \E y \in 2026..2027, m \in 1..12, d \in 1..31 :
                      resp.val[i].posted_date = PyStr(isoformat(Date(y, m, d)))
               ELSE resp.val[i].posted_date = PyNone

(***************************************************************************)
(* C9: a channel with exactly one item, delivered by xmltodict as a single *)
(* mapping, yields exactly one record, the same as the one-element list    *)
(* holding that item yields.                                               *)
(* The wrapping holds; no record comes out when the item's guid has        *)
(* attributes (C2).                                                        *)
(***************************************************************************)
C9_SingleItemAsList ==
  (/\ ParsedFeed
   /\ Len(ItemElems(req.text)) = 1
   /\ ElemValue(ItemElems(req.text)[1]).k = "dict") =>
    /\ ~Raised(resp)
    /\ Len(resp.val) = 1
    /\ resp = parse_all(<<ElemValue(ItemElems(req.text)[1])>>, today)

(***************************************************************************)
(* Claims about the service.                                               *)
(***************************************************************************)
ListedFeed ==
  /\ req.name = "list_jobs"
  /\ req.limit \in LimitMin..LimitMax
  /\ req.up.kind = "response"
  /\ is_success(req.up.status)

Min(a, b) == IF a < b THEN a ELSE b

\* the header mapping with the names as the upstream sent them
raw_headers_dict(h) ==
  PyDict([name \in {h[i][1] : i \in DOMAIN h} |->
            PyStr(h[CHOOSE i \in DOMAIN h : h[i][1] = name][2])])

(***************************************************************************)
(* C4 as claimed: whenever the upstream answers the page request, with any *)
(* status, get_job responds 200 with that status code and the upstream     *)
(* headers and body unmodified; 502 only on a transport failure.           *)
(* Fails: raise_for_status() turns every non-2xx answer into a 502.        *)
(***************************************************************************)
C4_PassThroughAnyStatus ==
  req.name = "get_job" =>
    /\ req.up.kind = "response" =>
         /\ resp.status = 200
         /\ resp.body.status_code = req.up.status
         /\ resp.body.headers = raw_headers_dict(req.up.headers)
         /\ resp.body.raw_html = req.up.text
    /\ resp.status = BadGateway => req.up.kind # "response"

(***************************************************************************)
(* C4 amended: get_job responds 200 exactly when the upstream answers with *)
(* a 2xx status; the response then carries that status code and the body   *)
(* text unmodified, and the upstream headers under lower-cased names (a    *)
(* name sent once keeps its value).  On a transport failure and on any     *)
(* non-2xx upstream status it responds 502 with a fixed message.           *)
(***************************************************************************)
C4_PassThroughOnSuccessOnly ==
  req.name = "get_job" =>
    LET up == req.up
        answered2xx == up.kind = "response" /\ up.status \in 200..299
    IN IF answered2xx
       THEN LET h == up.headers
                names == {h[i][1] : i \in DOMAIN h}
            IN /\ resp.status = 200
               /\ resp.body.url = req.url
               /\ resp.body.status_code = up.status
               /\ resp.body.raw_html = up.text
               /\ DOMAIN resp.body.headers.d = {Lower(n) : n \in names}
               /\ \A i \in DOMAIN h :
                    (\A j \in DOMAIN h : Lower(h[j][1]) = Lower(h[i][1]) => j = i)
                      => resp.body.headers.d[Lower(h[i][1])] = PyStr(h[i][2])
       ELSE resp = [status |-> BadGateway, detail |-> "Failed to fetch job URL"]

\* a 404 from the page's server came back as a 502
C4_Witness ==
  /\ req.name = "get_job"
  /\ req.up.kind = "response"
  /\ req.up.status = 404
  /\ resp.status = BadGateway

(***************************************************************************)
(* C5: for every limit in 1..500 and every feed with N items whose fetch   *)
(* succeeds, list_jobs returns count = min(limit, N) and the first         *)
(* min(limit, N) normalized records in feed order; count = len(jobs).      *)
(* The truncation holds; the request fails with a 500 when an item's guid  *)
(* has attributes (C2).                                                    *)
(***************************************************************************)
C5_FirstLimitRecords ==
  (ListedFeed /\ IsRssFeed(req.up.text) /\ OrdinaryItems(req.up.text)) =>
    LET its == ItemElems(req.up.text)
        n   == Min(req.limit, Len(its))
    IN /\ resp.status = 200
       /\ resp.body.count = n
       /\ Len(resp.body.jobs) = n
       /\ \A i \in 1..n : resp.body.jobs[i].d.raw = ElemValue(its[i])

(***************************************************************************)
(* C6: the memoization table is never observable: whatever calls came      *)
(* before, list_jobs answers with what a fresh parse of the feed text      *)
(* would give.                                                             *)
(* Fails: a pubDate without a full date is completed from the current day, *)
(* so a cached record keeps the day of its first parse.                    *)
(***************************************************************************)
C6_SameAsFreshParse ==
  (ListedFeed /\ resp.status = 200) =>
    resp.body = jobs_result(parse_body(req.up.text, today).val, req.limit)

(***************************************************************************)
(* C7: when the feed fetch fails (connection error, timeout, non-success   *)
(* status), list_jobs answers 502 with a fixed message, after one fetch    *)
(* and without calling the parser.                                         *)
(***************************************************************************)
C7_FetchFailureIs502 ==
  (/\ req.name = "list_jobs"
   /\ req.limit \in LimitMin..LimitMax
   /\ (req.up.kind # "response" \/ req.up.status \notin 200..299)) =>
    /\ resp = [status |-> BadGateway, detail |-> "Failed to fetch euraxess feed"]
    /\ req.fetches = 1
    /\ ~req.parsed

\* the feed endpoint answered 503 with a feed body, and the answer was a 502
C7_Witness ==
  /\ req.name = "list_jobs"
  /\ req.limit \in LimitMin..LimitMax
  /\ req.up.kind = "response"
  /\ req.up.status = 503
  /\ req.up.text = Feed3
  /\ resp.status = BadGateway

(***************************************************************************)
(* C10: the table never holds more than 32 distinct feed texts; a parse    *)
(* that succeeds on a text not in a full table evicts exactly the least    *)
(* recently used entry and inserts the new text; a hit makes its text the  *)
(* most recently used; a parse that raises adds no entry.                  *)
(***************************************************************************)
KeySeq(c) == [i \in DOMAIN c |-> c[i].key]

C10_BoundedLru ==
  /\ Len(cache) <= 32
  /\ \A i, j \in DOMAIN cache : cache[i].key = cache[j].key => i = j
  /\ req.name = "parse" =>
       LET was    == KeySeq(req.before)
           others == SelectSeq(was, LAMBDA key : key # req.text)
           hit    == \E i \in DOMAIN was : was[i] = req.text
       IN CASE hit -> KeySeq(cache) = Append(others, req.text)
            [] ~hit /\ Raised(resp) -> cache = req.before
            [] ~hit /\ ~Raised(resp) /\ Len(was) = 32 ->
                 KeySeq(cache) = Append(Tail(was), req.text)
            [] OTHER -> KeySeq(cache) = Append(was, req.text)

\* a full table, a text not in it parsed, and then a hit on an old entry
C10_Witness ==
  /\ req.name = "parse"
  /\ Len(req.before) = 32
  /\ \E i \in 1..31 : req.before[i].key = req.text
  /\ req.before[32].key = Feed(<<ItemFull>>)
  /\ cache[32].key = req.text

====
